---- MODULE Spec2Model ----
(***************************************************************************)
(* CORD chain configurations (node/service/src/chain_spec.rs).             *)
(*                                                                         *)
(* Key material is modelled symbolically.  A public key derived from a     *)
(* secret URI is the record [origin |-> "suri", scheme, material |-> uri]: *)
(* Pair::from_string is a deterministic function of the cryptographic      *)
(* scheme and the URI only.  A key given as a hex literal is the record    *)
(* [origin |-> "hex", scheme |-> "raw", material |-> the literal].         *)
(* An Option<T> is a sequence of length at most one (None == << >>).       *)
(* Balances are counted in units of WAY.                                   *)
(***************************************************************************)
EXTENDS Integers, Sequences, FiniteSets, TLC

VARIABLES
    WASM_BINARY,   \* cord_runtime::WASM_BINARY, an Option<&[u8]>
    call,          \* the function of chain_spec.rs entered last, with its arguments
    chain_spec,    \* the Result<CordChainSpec, String> of the last profile factory
    genesis,       \* the GenesisConfig assembled last (an Option)
    keys           \* the tuple get_authority_keys returned last (an Option)

vars == <<WASM_BINARY, call, chain_spec, genesis, keys>>

----------------------------------------------------------------------------
(* Bounds of the exploration *)

MaxAuthorities == 2
MaxEndowed == 4

----------------------------------------------------------------------------
(* Option and Result *)

None == << >>
Some(x) == <<x>>
Ok(x) == [tag |-> "Ok", val |-> x]
Err(e) == [tag |-> "Err", val |-> e]

\* Option::ok_or
ok_or(opt, e) == IF opt = None THEN Err(e) ELSE Ok(opt[1])

\* Option::unwrap_or_else
unwrap_or_else(opt, dflt) == IF opt = None THEN dflt ELSE opt[1]

\* Iterator::take(k) followed by collect
take(s, k) == SubSeq(s, 1, IF k < Len(s) THEN k ELSE Len(s))

----------------------------------------------------------------------------
(* Cryptographic schemes behind the public-key types.  The session-key types are
   application-key wrappers: BABE, ImOnline and AuthorityDiscovery keys are
   sr25519 keys, GRANDPA keys are ed25519 keys. *)

sr25519_Public == "sr25519"
BabeId == "sr25519"
GrandpaId == "ed25519"
ImOnlineId == "sr25519"
AuthorityDiscoveryId == "sr25519"

STAGING_TELEMETRY_URL == "wss://telemetry.dway.io/submit/"
DEFAULT_PROTOCOL_ID == "cord"

\* array_bytes::hex_n_into_unchecked / hex2array_unchecked(..).unchecked_into()
hex(literal) == [origin |-> "hex", scheme |-> "raw", material |-> literal]

\* Variant: the block-production and finality keys change places in the bundle.
session_keys_swapped(babe, grandpa, im_online, authority_discovery) ==
    [babe |-> grandpa, grandpa |-> babe, im_online |-> im_online,
     authority_discovery |-> authority_discovery]

session_keys(babe, grandpa, im_online, authority_discovery) ==
    [babe |-> babe, grandpa |-> grandpa, im_online |-> im_online,
     authority_discovery |-> authority_discovery]

get_from_seed(TPublic, seed) ==
    [origin |-> "suri", scheme |-> TPublic, material |-> "//" \o seed]

get_properties(symbol, decimals, ss58format) ==
    [tokenSymbol |-> symbol, tokenDecimals |-> decimals, ss58Format |-> ss58format]

\* AccountPublic::from(public).into_account(): the account identifier of an
\* sr25519 signer is the 32 bytes of its public key.
get_account_id_from_seed(TPublic, seed) == get_from_seed(TPublic, seed)

\* Variant: the controller account is derived with the stash suffix as well.
get_authority_keys_stash_controller(seed) ==
    << get_account_id_from_seed(sr25519_Public, seed \o "//stash"),
       get_account_id_from_seed(sr25519_Public, seed \o "//stash"),
       get_from_seed(BabeId, seed),
       get_from_seed(GrandpaId, seed),
       get_from_seed(ImOnlineId, seed),
       get_from_seed(AuthorityDiscoveryId, seed) >>

get_authority_keys(seed) ==
    << get_account_id_from_seed(sr25519_Public, seed \o "//stash"),
       get_account_id_from_seed(sr25519_Public, seed),
       get_from_seed(BabeId, seed),
       get_from_seed(GrandpaId, seed),
       get_from_seed(ImOnlineId, seed),
       get_from_seed(AuthorityDiscoveryId, seed) >>

get_authority_keys_from_seed(seed) ==
    LET keys_ == get_authority_keys(seed)
    IN  <<keys_[1], keys_[2], keys_[3], keys_[4], keys_[5], keys_[6]>>

\* Variant: the stash suffixes are dropped, so Alice and Bob are listed twice.
testnet_accounts_no_suffix ==
    << get_account_id_from_seed(sr25519_Public, "Alice"),
       get_account_id_from_seed(sr25519_Public, "Bob"),
       get_account_id_from_seed(sr25519_Public, "Charlie"),
       get_account_id_from_seed(sr25519_Public, "Alice"),
       get_account_id_from_seed(sr25519_Public, "Bob") >>

testnet_accounts ==
    << get_account_id_from_seed(sr25519_Public, "Alice"),
       get_account_id_from_seed(sr25519_Public, "Bob"),
       get_account_id_from_seed(sr25519_Public, "Charlie"),
       get_account_id_from_seed(sr25519_Public, "Alice//stash"),
       get_account_id_from_seed(sr25519_Public, "Bob//stash") >>

author_accounts ==
    << <<get_account_id_from_seed(sr25519_Public, "Alice"), "()">>,
       <<get_account_id_from_seed(sr25519_Public, "Bob"), "()">>,
       <<get_account_id_from_seed(sr25519_Public, "Charlie"), "()">> >>

----------------------------------------------------------------------------
(* cord_staging_config_genesis *)

staging_initial_authorities ==
    << << hex("6ab68082628ad0cfab68b1a00377170ff0dea4da06030cdd0c21a364ecbbc23b"),
          hex("e41d2833b0b2f629e52a1bc1ace3079c395673bab26a14626b52c132b1fb5f1c"),
          hex("b4a78c7de7cc60ed9a99029fcf487f40a3c4b5d5d78a7080387507a680ecb75e"),
          hex("a5b6331fcff809f2b3419332678fd7b23a2a9320240ec36652337fe66a7337e0"),
          hex("962cc02d5dddbb2fc03bd8d511844ec47e798b3bc20d9daf7400b3d09533d518"),
          hex("424af4547d488e65307cb14ffae20257b6e000658913f985824da5629afff13c") >>,
       << hex("6efebd6198dc606b9074d7b3cd205261f36e143701a393ee880d29ebab55e92d"),
          hex("186f6e121c08e7d2951f086cec0d6cf90e5b964a321175914ab5cb938cb51006"),
          hex("c0d386cbb0f71fd8c22fe5724b02bb747a92d5241cfcb7ee81f2611491a4ec2f"),
          hex("c9b4beb11d90a463dbf7dfc9a20d00538333429e1f93874bf3937de98e49939f"),
          hex("1e35b40417a5631c4762974cfd37128985aa626366d659eb37b7d19eca5ce676"),
          hex("2ceb10e043fd67269c33758d0f65d245a2edcd293049b2cb78a807106643ed4c") >>,
       << hex("0218be44e37405b283cd8e2ddf9fb73ec9bde2efc1b6567f2df55fc311bd4502"),
          hex("c227e25885b199a75429484278681c276062e6b0639c75aba6d7eba622ae773d"),
          hex("caf72037137297537c8e00dfe6259a640801d62c71a55d825d9994a26d743b7d"),
          hex("f2079c41fe0f05f17138e205da91e90958212daf50605d99699baf081daae49d"),
          hex("924daa7728eab557869188f55b30fd8d4810cbd60ad3280c6562e0a8cad3943a"),
          hex("3a39c922f4c6f6efe8893260b7d326964b12686c28b84a3b83b973c279215243") >> >>

staging_endowed_accounts ==
    << hex("903c379067968d241b2293784ff353d533837f77bcb72154e278ed06e1026a4b"),
       hex("eceb211f4c13366434d1b8d96f91099e4810e5ce7f195d2de489baf207ce4576"),
       hex("0684d85c98b64e8af9cb23db1e5e5ed9acc2b65c4dbefc6c3feaba8176da3f13"),
       hex("02c7c55d71abbaffb9590bcaf48ad687b783c035f9ad1e94208b776ff4a6e13f"),
       hex("ae2b60ce50c8a6a0f9f1eba33eec5106facfb366e946a59591633bd30c090d7d") >>

\* const STASH: u128 = 100 * WAY
staging_STASH == 100
\* const ENDOWMENT: u128 = 1_110_101_200 * WAY
staging_ENDOWMENT == 1110101200

\* Variant: the authorities' operator accounts are not chained to the table.
staging_balances_no_stash(endowed_accounts, initial_authorities) ==
    [i \in 1..Len(endowed_accounts) |-> LET k == endowed_accounts[i] IN <<k, staging_ENDOWMENT>>]

staging_balances(endowed_accounts, initial_authorities) ==
    [i \in 1..Len(endowed_accounts) |-> LET k == endowed_accounts[i] IN <<k, staging_ENDOWMENT>>]
        \o [i \in 1..Len(initial_authorities) |-> LET x == initial_authorities[i] IN <<x[1], staging_STASH>>]

staging_authorities(initial_authorities) ==
    [i \in 1..Len(initial_authorities) |-> LET x == initial_authorities[i] IN x[1]]

staging_session_keys(initial_authorities) ==
    [i \in 1..Len(initial_authorities) |-> LET x == initial_authorities[i] IN <<x[1], x[1], session_keys(x[3], x[4], x[5], x[6])>>]

staging_authors == author_accounts

staging_council_members(endowed_accounts) ==
    LET num_endowed_accounts == Len(endowed_accounts)
    IN  take(endowed_accounts, (num_endowed_accounts + 1) \div 2)

staging_technical_committee_members(endowed_accounts) ==
    LET num_endowed_accounts == Len(endowed_accounts)
    IN  take(endowed_accounts, (num_endowed_accounts + 1) \div 2)

\* Variant: the last endowed account is taken instead of the first.
staging_sudo_key_last(endowed_accounts) == Some(endowed_accounts[Len(endowed_accounts)])

staging_sudo_key(endowed_accounts) == Some(endowed_accounts[1])

cord_staging_config_genesis(wasm_binary) ==
    LET initial_authorities == staging_initial_authorities
        endowed_accounts == staging_endowed_accounts
    IN  [ system |-> [code |-> wasm_binary],
          balances |-> [balances |-> staging_balances(endowed_accounts, initial_authorities)],
          indices |-> [indices |-> << >>],
          authority_manager |-> [authorities |-> staging_authorities(initial_authorities)],
          session |-> [keys |-> staging_session_keys(initial_authorities)],
          babe |-> [authorities |-> "default",
                    epoch_config |-> Some("BABE_GENESIS_EPOCH_CONFIG")],
          grandpa |-> "default",
          im_online |-> "default",
          extrinsic_authorship |-> [authors |-> staging_authors],
          democracy |-> "default",
          council |-> [members |-> staging_council_members(endowed_accounts)],
          technical_committee |->
              [members |-> staging_technical_committee_members(endowed_accounts)],
          technical_membership |-> "default",
          treasury |-> "default",
          transaction_payment |-> "default",
          authority_discovery |-> [keys |-> << >>],
          sudo |-> [key |-> staging_sudo_key(endowed_accounts)] ]

----------------------------------------------------------------------------
(* cord_development_genesis *)

\* 3wJcok3UjwBBecxbTtueZSrQG7KQdauaZTFrFC27pNez8F1E - Credit Treasury
credit_endowed_accounts ==
    << hex("6d6f646c70792f63726469740000000000000000000000000000000000000000") >>

\* const ENDOWMENT: u128 = 50_000 * WAY
development_ENDOWMENT == 50000

\* Variant: the credit-treasury account is not chained to the table.
development_balances_no_credit(endowed_accounts) ==
    [i \in 1..Len(endowed_accounts) |-> LET k == endowed_accounts[i] IN <<k, development_ENDOWMENT>>]

development_balances(endowed_accounts) ==
    [i \in 1..Len(endowed_accounts) |-> LET k == endowed_accounts[i] IN <<k, development_ENDOWMENT>>]
        \o [i \in 1..Len(credit_endowed_accounts) |-> LET x == credit_endowed_accounts[i] IN <<x, development_ENDOWMENT>>]

development_authorities(initial_authorities) ==
    [i \in 1..Len(initial_authorities) |-> LET x == initial_authorities[i] IN x[1]]

\* Variant: the bundle is registered against the controller account.
development_session_keys_controller(initial_authorities) ==
    [i \in 1..Len(initial_authorities) |-> LET x == initial_authorities[i] IN <<x[2], x[2], session_keys(x[3], x[4], x[5], x[6])>>]

development_session_keys(initial_authorities) ==
    [i \in 1..Len(initial_authorities) |-> LET x == initial_authorities[i] IN <<x[1], x[1], session_keys(x[3], x[4], x[5], x[6])>>]

\* Variant: the half is rounded down.
development_council_members_floor(endowed_accounts) ==
    LET num_endowed_accounts == Len(endowed_accounts)
    IN  take(endowed_accounts, num_endowed_accounts \div 2)

development_council_members(endowed_accounts) ==
    LET num_endowed_accounts == Len(endowed_accounts)
    IN  take(endowed_accounts, (num_endowed_accounts + 1) \div 2)

development_technical_committee_members(endowed_accounts) ==
    LET num_endowed_accounts == Len(endowed_accounts)
    IN  take(endowed_accounts, (num_endowed_accounts + 1) \div 2)

development_sudo_key(root_key) == Some(root_key)

cord_development_genesis(wasm_binary, initial_authorities, root_key, endowed_accounts_opt) ==
    LET endowed_accounts == unwrap_or_else(endowed_accounts_opt, testnet_accounts)
    IN  [ system |-> [code |-> wasm_binary],
          balances |-> [balances |-> development_balances(endowed_accounts)],
          indices |-> [indices |-> << >>],
          authority_manager |-> [authorities |-> development_authorities(initial_authorities)],
          session |-> [keys |-> development_session_keys(initial_authorities)],
          babe |-> [authorities |-> "default",
                    epoch_config |-> Some("BABE_GENESIS_EPOCH_CONFIG")],
          grandpa |-> "default",
          im_online |-> "default",
          extrinsic_authorship |-> [authors |-> author_accounts],
          democracy |-> "default",
          council |-> [members |-> development_council_members(endowed_accounts)],
          technical_committee |->
              [members |-> development_technical_committee_members(endowed_accounts)],
          technical_membership |-> "default",
          treasury |-> "default",
          transaction_payment |-> "default",
          authority_discovery |-> [keys |-> << >>],
          sudo |-> [key |-> development_sudo_key(root_key)] ]

cord_development_config_genesis(wasm_binary) ==
    cord_development_genesis(
        wasm_binary,
        << get_authority_keys_from_seed("Alice") >>,
        get_account_id_from_seed(sr25519_Public, "Alice"),
        None)

cord_local_testnet_config_genesis(wasm_binary) ==
    cord_development_genesis(
        wasm_binary,
        << get_authority_keys_from_seed("Alice"), get_authority_keys_from_seed("Bob") >>,
        get_account_id_from_seed(sr25519_Public, "Alice"),
        None)

----------------------------------------------------------------------------
(* Profile factories *)

\* CordChainSpec::from_genesis keeps its arguments; the constructor closure is
\* kept unevaluated, as the name of the function it calls and the blob it captured.
from_genesis(name, id, chain_type, constructor, boot_nodes, telemetry_endpoints, protocol_id, fork_id, properties, extensions) ==
    [ name |-> name, id |-> id, chain_type |-> chain_type, genesis |-> constructor,
      boot_nodes |-> boot_nodes, telemetry_endpoints |-> telemetry_endpoints,
      protocol_id |-> protocol_id, fork_id |-> fork_id, properties |-> properties,
      extensions |-> extensions ]

closure(function, wasm_binary) == [function |-> function, wasm_binary |-> wasm_binary]

cord_development_config ==
    LET wasm_binary == ok_or(WASM_BINARY, "CORD development wasm not available")
        properties == get_properties("WAY", 12, 29)
    IN  IF wasm_binary.tag = "Err" THEN Err(wasm_binary.val)
        ELSE Ok(from_genesis(
                 "Dev. Node",
                 "cord_dev",
                 "Development",
                 closure("cord_development_config_genesis", wasm_binary.val),
                 << >>,
                 None,
                 Some(DEFAULT_PROTOCOL_ID),
                 None,
                 Some(properties),
                 "default"))

cord_local_testnet_config ==
    LET wasm_binary == ok_or(WASM_BINARY, "CORD development wasm not available")
        properties == get_properties("WAY", 12, 29)
    IN  IF wasm_binary.tag = "Err" THEN Err(wasm_binary.val)
        ELSE Ok(from_genesis(
                 "Local",
                 "cord_local",
                 "Local",
                 closure("cord_local_testnet_config_genesis", wasm_binary.val),
                 << >>,
                 None,
                 Some(DEFAULT_PROTOCOL_ID),
                 None,
                 Some(properties),
                 "default"))

\* Variant: a missing blob is replaced by an empty one instead of being reported.
cord_staging_config_unchecked ==
    LET wasm_binary == unwrap_or_else(WASM_BINARY, "")
        boot_nodes == << >>
        properties == get_properties("WAY", 12, 29)
    IN  Ok(from_genesis(
             "CORD Staging Testnet",
             "cord_staging_testnet",
             "Live",
             closure("cord_staging_config_genesis", wasm_binary),
             boot_nodes,
             Some(<< <<STAGING_TELEMETRY_URL, 0>> >>),
             Some(DEFAULT_PROTOCOL_ID),
             None,
             Some(properties),
             "default"))

\* TelemetryEndpoints::new(..).expect(..) succeeds on the constant STAGING_TELEMETRY_URL.
cord_staging_config ==
    LET wasm_binary == ok_or(WASM_BINARY, "CORD development wasm not available")
        boot_nodes == << >>
        properties == get_properties("WAY", 12, 29)
    IN  IF wasm_binary.tag = "Err" THEN Err(wasm_binary.val)
        ELSE Ok(from_genesis(
                 "CORD Staging Testnet",
                 "cord_staging_testnet",
                 "Live",
                 closure("cord_staging_config_genesis", wasm_binary.val),
                 boot_nodes,
                 Some(<< <<STAGING_TELEMETRY_URL, 0>> >>),
                 Some(DEFAULT_PROTOCOL_ID),
                 None,
                 Some(properties),
                 "default"))

\* The `move || ..._config_genesis(wasm_binary)` closures, when called.
call_constructor(c) ==
    CASE c.function = "cord_development_config_genesis" ->
             cord_development_config_genesis(c.wasm_binary)
      [] c.function = "cord_local_testnet_config_genesis" ->
             cord_local_testnet_config_genesis(c.wasm_binary)
      [] c.function = "cord_staging_config_genesis" ->
             cord_staging_config_genesis(c.wasm_binary)

----------------------------------------------------------------------------
(* Inputs *)

Blob == "wasm"

Seeds == {"Alice", "Bob", "Charlie", "Alice//stash"}

\* Authority records handed to the assembler: seed-derived ones and a literal one.
AuthorityPool ==
    {get_authority_keys_from_seed("Alice"), get_authority_keys_from_seed("Bob"),
     staging_initial_authorities[1]}

\* Accounts handed to the assembler as endowed accounts or as the root key.
AccountPool ==
    {get_account_id_from_seed(sr25519_Public, "Alice"),
     get_account_id_from_seed(sr25519_Public, "Alice//stash"),
     staging_endowed_accounts[1]}

SeqsUpTo(S, n) == UNION {[1..k -> S] : k \in 0..n}

----------------------------------------------------------------------------
(* Behaviour: one call of a function of the file, from a fresh process *)

\* No function of the file has been entered yet.
Idle == call = None

Init ==
    /\ WASM_BINARY \in {None, Some(Blob)}
    /\ call = None
    /\ chain_spec = None
    /\ genesis = None
    /\ keys = None

DevelopmentConfig ==
    /\ Idle
    /\ call' = Some([function |-> "cord_development_config", args |-> << >>])
    /\ chain_spec' = Some(cord_development_config)
    /\ UNCHANGED <<WASM_BINARY, genesis, keys>>

LocalTestnetConfig ==
    /\ Idle
    /\ call' = Some([function |-> "cord_local_testnet_config", args |-> << >>])
    /\ chain_spec' = Some(cord_local_testnet_config)
    /\ UNCHANGED <<WASM_BINARY, genesis, keys>>

StagingConfig ==
    /\ Idle
    /\ call' = Some([function |-> "cord_staging_config", args |-> << >>])
    /\ chain_spec' = Some(cord_staging_config)
    /\ UNCHANGED <<WASM_BINARY, genesis, keys>>

\* The chain-bootstrap collaborator calls the constructor of a specification.
BuildGenesis ==
    /\ chain_spec # None
    /\ chain_spec[1].tag = "Ok"
    /\ genesis = None
    /\ genesis' = Some(call_constructor(chain_spec[1].val.genesis))
    /\ UNCHANGED <<WASM_BINARY, call, chain_spec, keys>>

DevelopmentGenesis ==
    /\ Idle
    /\ \E initial_authorities \in SeqsUpTo(AuthorityPool, MaxAuthorities),
          root_key \in AccountPool,
          endowed_accounts \in
              {None} \cup {Some(e) : e \in SeqsUpTo(AccountPool, MaxEndowed)} :
          /\ call' = Some([function |-> "cord_development_genesis",
                           args |-> <<Blob, initial_authorities, root_key,
                                      endowed_accounts>>])
          /\ genesis' = Some(cord_development_genesis(
                                 Blob, initial_authorities, root_key, endowed_accounts))
    /\ UNCHANGED <<WASM_BINARY, chain_spec, keys>>

GetAuthorityKeys ==
    /\ Idle
    /\ \E seed \in Seeds :
          /\ call' = Some([function |-> "get_authority_keys", args |-> <<seed>>])
          /\ keys' = Some(get_authority_keys(seed))
    /\ UNCHANGED <<WASM_BINARY, chain_spec, genesis>>

Next ==
    \/ DevelopmentConfig
    \/ LocalTestnetConfig
    \/ StagingConfig
    \/ BuildGenesis
    \/ DevelopmentGenesis
    \/ GetAuthorityKeys

Spec == Init /\ [][Next]_vars

----------------------------------------------------------------------------
(* Vocabulary of the properties *)

Entered(f) == call # None /\ call[1].function = f

\* The genesis record at hand was assembled by the named profile's constructor.
BuiltBy(f) == Entered(f) /\ genesis # None

DevelopmentBuilt == BuiltBy("cord_development_config")
LocalTestnetBuilt == BuiltBy("cord_local_testnet_config")
StagingBuilt == BuiltBy("cord_staging_config")
AssemblerBuilt == BuiltBy("cord_development_genesis")
ProfileBuilt == DevelopmentBuilt \/ LocalTestnetBuilt \/ StagingBuilt

\* The public key of scheme `scheme` derived from the secret URI `uri`.
Suri(scheme, uri) == [origin |-> "suri", scheme |-> scheme, material |-> uri]

Alice == Suri("sr25519", "//Alice")
Bob == Suri("sr25519", "//Bob")
Charlie == Suri("sr25519", "//Charlie")
AliceStash == Suri("sr25519", "//Alice//stash")
BobStash == Suri("sr25519", "//Bob//stash")
CreditTreasury ==
    [origin |-> "hex", scheme |-> "raw",
     material |-> "6d6f646c70792f63726469740000000000000000000000000000000000000000"]

\* The authority records the assembler was given.
InputAuthorities ==
    CASE Entered("cord_development_config") -> << get_authority_keys_from_seed("Alice") >>
      [] Entered("cord_local_testnet_config") ->
             << get_authority_keys_from_seed("Alice"), get_authority_keys_from_seed("Bob") >>
      [] Entered("cord_staging_config") -> staging_initial_authorities
      [] Entered("cord_development_genesis") -> call[1].args[2]

\* The endowed-accounts sequence the assembler worked on.
InputEndowed ==
    CASE Entered("cord_development_config") -> <<Alice, Bob, Charlie, AliceStash, BobStash>>
      [] Entered("cord_local_testnet_config") -> <<Alice, Bob, Charlie, AliceStash, BobStash>>
      [] Entered("cord_staging_config") -> staging_endowed_accounts
      [] Entered("cord_development_genesis") ->
             IF call[1].args[4] = None
             THEN <<Alice, Bob, Charlie, AliceStash, BobStash>>
             ELSE call[1].args[4][1]

Range(s) == {s[i] : i \in 1..Len(s)}

Count(s, x) == Cardinality({i \in 1..Len(s) : s[i] = x})

RECURSIVE SumAmounts(_, _)
\* The sum of the amounts the balances table `table` assigns to account `a`.
SumAmounts(table, a) ==
    IF table = << >> THEN 0
    ELSE (IF Head(table)[1] = a THEN Head(table)[2] ELSE 0) + SumAmounts(Tail(table), a)

Balances == genesis[1].balances.balances
Operators == genesis[1].authority_manager.authorities
SessionKeys == genesis[1].session.keys

\* ceil(n/2), by its definition: the least k with 2k >= n
CeilHalf(n) == CHOOSE k \in 0..n : 2 * k >= n /\ \A j \in 0..n : 2 * j >= n => k <= j

IsPrefix(p, s) == Len(p) <= Len(s) /\ \A i \in 1..Len(p) : p[i] = s[i]

----------------------------------------------------------------------------
(* C1 *)

----------------------------------------------------------------------------
(* C2 *)

\* C2: for every endowed-accounts sequence of length n, the council member list and
\* the technical-committee member list are each the first ceil(n/2) elements of
\* that sequence, in the same order.
C2_GovernanceSplit ==
    genesis # None =>
        LET n == Len(InputEndowed)
            council == genesis[1].council.members
            technical == genesis[1].technical_committee.members
        IN  /\ Len(council) = CeilHalf(n)
            /\ IsPrefix(council, InputEndowed)
            /\ Len(technical) = CeilHalf(n)
            /\ IsPrefix(technical, InputEndowed)
            /\ n = 5 => Len(council) = 3
            /\ n = 4 => Len(council) = 2
            /\ n = 1 => Len(council) = 1

C2_Witness ==
    /\ AssemblerBuilt
    /\ call[1].args[4] # None
    /\ Len(InputEndowed) = 3
    /\ Len(genesis[1].council.members) = 2
    /\ Len(genesis[1].technical_committee.members) = 2

----------------------------------------------------------------------------
(* C3 *)

\* C3: the authority registry and the session-key registry each hold one entry per
\* input authority, in input order and index-aligned: entry i of the authority
\* registry is the operator account of input authority i and is the account of entry
\* i of the session-key registry, whose bundle holds that authority's
\* block-production, finality, liveness and discovery keys in their roles.  The local
\* testnet has two entries in each registry, Alice's then Bob's.
C3_RegistriesAligned ==
    genesis # None =>
        /\ Len(Operators) = Len(InputAuthorities)
        /\ Len(SessionKeys) = Len(InputAuthorities)
        /\ \A i \in 1..Len(InputAuthorities) :
              /\ Operators[i] = InputAuthorities[i][1]
              /\ SessionKeys[i][1] = Operators[i]
              /\ SessionKeys[i][2] = Operators[i]
              /\ SessionKeys[i][3].babe = InputAuthorities[i][3]
              /\ SessionKeys[i][3].grandpa = InputAuthorities[i][4]
              /\ SessionKeys[i][3].im_online = InputAuthorities[i][5]
              /\ SessionKeys[i][3].authority_discovery = InputAuthorities[i][6]
        /\ LocalTestnetBuilt =>
              /\ Operators = <<AliceStash, BobStash>>
              /\ Len(SessionKeys) = 2
              /\ SessionKeys[1][3].grandpa = Suri("ed25519", "//Alice")
              /\ SessionKeys[2][3].grandpa = Suri("ed25519", "//Bob")

C3_Witness ==
    /\ LocalTestnetBuilt
    /\ Len(Operators) = 2
    /\ SessionKeys[2][1] = BobStash

----------------------------------------------------------------------------
(* C4 *)

\* C4: every genesis record designates exactly one root account: the staging profile
\* the first literal of its endowed-accounts sequence, the local testnet profile its
\* first endowed account, the development profile the supplied root account, the
\* account derived from seed "Alice".
C4_RootAccount ==
    genesis # None =>
        LET key == genesis[1].sudo.key
        IN  /\ Len(key) = 1
            /\ StagingBuilt =>
                  key[1] = hex("903c379067968d241b2293784ff353d533837f77bcb72154e278ed06e1026a4b")
            /\ LocalTestnetBuilt => key[1] = InputEndowed[1] /\ key[1] = Balances[1][1]
            /\ DevelopmentBuilt => key[1] = Alice
            /\ AssemblerBuilt => key[1] = call[1].args[3]

C4_Witness ==
    /\ StagingBuilt
    /\ genesis[1].sudo.key = <<staging_endowed_accounts[1]>>
    /\ genesis[1].sudo.key[1] = Balances[1][1]

----------------------------------------------------------------------------
(* C5 *)

FactoryEntered ==
    \/ Entered("cord_development_config")
    \/ Entered("cord_local_testnet_config")
    \/ Entered("cord_staging_config")

\* The profile an error message speaks of.
ProfileNamedIn(message) ==
    CASE message = "CORD development wasm not available" -> "cord_development_config"
      [] message = "CORD local testnet wasm not available" -> "cord_local_testnet_config"
      [] message = "CORD staging wasm not available" -> "cord_staging_config"
      [] OTHER -> "no profile"

\* C5 (as stated): a factory that finds the runtime code blob unavailable returns an
\* error, before any genesis assembly and without a specification, whose message
\* names the profile that asked for the blob; with the blob it returns a complete
\* specification.
C5_Original ==
    FactoryEntered =>
        /\ chain_spec # None
        /\ WASM_BINARY = None =>
              /\ chain_spec[1].tag = "Err"
              /\ genesis = None
              /\ ProfileNamedIn(chain_spec[1].val) = call[1].function
        /\ WASM_BINARY # None => chain_spec[1].tag = "Ok"

\* The metadata each factory attaches to its specification.
ProfileMetadata(f) ==
    CASE f = "cord_development_config" ->
             <<"Dev. Node", "cord_dev", "Development", "cord_development_config_genesis">>
      [] f = "cord_local_testnet_config" ->
             <<"Local", "cord_local", "Local", "cord_local_testnet_config_genesis">>
      [] f = "cord_staging_config" ->
             <<"CORD Staging Testnet", "cord_staging_testnet", "Live",
               "cord_staging_config_genesis">>

\* C5 (amended): a factory that finds the runtime code blob unavailable returns an
\* error, before any genesis assembly and without a specification; the message is
\* the same "CORD development wasm not available" for all three factories and does
\* not tell them apart.  With the blob it returns a complete specification, whose
\* constructor holds the blob.  There is no third outcome.
C5_FactoryOutcome ==
    /\ (chain_spec # None /\ chain_spec[1].tag = "Err") => genesis = None
    /\ FactoryEntered =>
          /\ chain_spec # None
          /\ chain_spec[1].tag \in {"Ok", "Err"}
          /\ WASM_BINARY = None =>
                /\ chain_spec[1] = [tag |-> "Err", val |-> "CORD development wasm not available"]
                /\ genesis = None
          /\ WASM_BINARY # None =>
                LET it == chain_spec[1].val
                    meta == ProfileMetadata(call[1].function)
                IN  /\ chain_spec[1].tag = "Ok"
                    /\ DOMAIN it = {"name", "id", "chain_type", "genesis", "boot_nodes",
                                    "telemetry_endpoints", "protocol_id", "fork_id",
                                    "properties", "extensions"}
                    /\ <<it.name, it.id, it.chain_type, it.genesis.function>> = meta
                    /\ it.genesis.wasm_binary = WASM_BINARY[1]
                    /\ it.protocol_id = <<"cord">>
                    /\ it.properties =
                           <<[tokenSymbol |-> "WAY", tokenDecimals |-> 12, ss58Format |-> 29]>>
                    /\ genesis # None => genesis[1].system.code = WASM_BINARY[1]

C5_Witness ==
    /\ Entered("cord_staging_config")
    /\ WASM_BINARY = None
    /\ chain_spec = <<[tag |-> "Err", val |-> "CORD development wasm not available"]>>
    /\ genesis = None

----------------------------------------------------------------------------
(* C6 *)

\* C6: in the development profile the accounts of the balances table are the five
\* canonical testnet accounts (Alice, Bob, Charlie, Alice//stash, Bob//stash) and the
\* credit-treasury account, no others, and each of the six is credited ENDOWMENT.
C6_DevelopmentBalances ==
    DevelopmentBuilt =>
        /\ {e[1] : e \in Range(Balances)} =
               {Alice, Bob, Charlie, AliceStash, BobStash, CreditTreasury}
        /\ \A a \in {Alice, Bob, Charlie, AliceStash, BobStash, CreditTreasury} :
               SumAmounts(Balances, a) = 50000

C6_Witness ==
    /\ DevelopmentBuilt
    /\ Len(Balances) = 6
    /\ Balances[6] = <<CreditTreasury, 50000>>

----------------------------------------------------------------------------
(* C7 *)

\* The five role keys of a get_authority_keys tuple: account-signing (controller),
\* block-production, finality-voting, liveness-heartbeat, discovery.
RoleKeys(k) == <<k[2], k[3], k[4], k[5], k[6]>>

----------------------------------------------------------------------------
(* C8 *)

\* Every account or key a staging genesis record takes from the account catalog.
StagingCatalogKeys ==
    LET g == genesis[1]
    IN  {e[1] : e \in Range(g.balances.balances)}
          \cup Range(g.authority_manager.authorities)
          \cup {e[1] : e \in Range(g.session.keys)}
          \cup {e[2] : e \in Range(g.session.keys)}
          \cup UNION {{e[3].babe, e[3].grandpa, e[3].im_online, e[3].authority_discovery} :
                        e \in Range(g.session.keys)}
          \cup Range(g.council.members)
          \cup Range(g.technical_committee.members)
          \cup Range(g.sudo.key)
          \cup {e[1] : e \in Range(g.extrinsic_authorship.authors)}

\* C8: in the staging genesis record every account identifier and public key of the
\* account catalog (endowed accounts, authority records, governance members, root
\* account, authorship-permission registry) is a hard-coded public-key literal; none
\* is derived from a textual seed.
C8_StagingLiterals ==
    StagingBuilt => \A k \in StagingCatalogKeys : k.origin = "hex"

----------------------------------------------------------------------------
(* C9 *)

\* C9 (as stated): the session-key registry entry built for an authority record
\* registers the bundle against the record's controllerAccount, its second field.
C9_Original ==
    genesis # None =>
        \A i \in 1..Len(SessionKeys) : SessionKeys[i][1] = InputAuthorities[i][2]

\* C9 (amended): the session-key registry entry built for an authority record
\* registers the bundle against the record's operatorAccount, its first field, in
\* both account positions of the entry; the controllerAccount is not used, so where
\* it differs from the operator account it is not the account of the entry.
C9_RegisteredAgainstOperator ==
    genesis # None =>
        \A i \in 1..Len(SessionKeys) :
            LET operatorAccount == InputAuthorities[i][1]
                controllerAccount == InputAuthorities[i][2]
            IN  /\ SessionKeys[i][1] = operatorAccount
                /\ SessionKeys[i][2] = operatorAccount
                /\ controllerAccount # operatorAccount =>
                      controllerAccount \notin {SessionKeys[i][1], SessionKeys[i][2]}

C9_Witness ==
    /\ DevelopmentBuilt
    /\ Len(SessionKeys) = 1
    /\ SessionKeys[1][1] = AliceStash
    /\ InputAuthorities[1][2] = Alice

----------------------------------------------------------------------------
(* C10 *)

\* C10: in the genesis record of each of the three profiles no account identifier
\* appears more than once in the balances table.
C10_NoDuplicateBalance ==
    ProfileBuilt =>
        \A i, j \in 1..Len(Balances) : i # j => Balances[i][1] # Balances[j][1]

C10_Witness ==
    /\ StagingBuilt
    /\ Len(Balances) = 8
    /\ Balances[6][1] = staging_initial_authorities[1][1]

====
